---- MODULE Spec2Model ----
(***************************************************************************)
(* Log Keeper (obsidian-log-keeper): the 'last-modified' time stamp log    *)
(* kept in a note's frontmatter, and the settings that drive it.           *)
(*                                                                         *)
(* Strings are sequences of one-character strings, so that startsWith,     *)
(* format and strict parse are computed character by character.            *)
(* A moment is [valid, s, ms]: s is the number of seconds of naive local   *)
(* wall-clock time since 2024-01-01T00:00:00, ms the millisecond part.     *)
(***************************************************************************)
EXTENDS Integers, Sequences, FiniteSets, TLC

VARIABLES settings, data, warning_msg, rendered, frontmatter,
          otherProperties, pending, history, last

vars == <<settings, data, warning_msg, rendered, frontmatter,
          otherProperties, pending, history, last>>

\* ------------------------------------------------------------------------
\* Bounds
\* ------------------------------------------------------------------------
\* Longest log handed to a single update.
MaxLen == 2

\* Longest log the running plugin is followed to.
MaxLog == 2

\* ------------------------------------------------------------------------
\* Characters and strings
\* ------------------------------------------------------------------------
Digits == <<"0", "1", "2", "3", "4", "5", "6", "7", "8", "9">>

IsDigit(c) == \E i \in 1..10 : Digits[i] = c

DigitValue(c) == (CHOOSE i \in 1..10 : Digits[i] = c) - 1

\* String.prototype.startsWith
startsWith(str, prefix) ==
    /\ Len(prefix) <= Len(str)
    /\ SubSeq(str, 1, Len(prefix)) = prefix

\* ------------------------------------------------------------------------
\* Calendar arithmetic of the moment library (proleptic Gregorian, naive
\* local time).  Days are counted from 1970-01-01 and then shifted to the
\* model's origin 2024-01-01.
\* ------------------------------------------------------------------------
SecondsPerDay == 86400

IsLeapYear(y) == (y % 4 = 0 /\ y % 100 # 0) \/ y % 400 = 0

daysInMonth(y, m) ==
    IF m = 2 THEN (IF IsLeapYear(y) THEN 29 ELSE 28)
    ELSE IF m \in {4, 6, 9, 11} THEN 30 ELSE 31

DaysFromCivil(y0, m, d) ==
    LET y   == IF m <= 2 THEN y0 - 1 ELSE y0
        era == y \div 400
        yoe == y - era * 400
        mp  == IF m > 2 THEN m - 3 ELSE m + 9
        doy == (153 * mp + 2) \div 5 + d - 1
        doe == yoe * 365 + yoe \div 4 - yoe \div 100 + doy
    IN  era * 146097 + doe - 719468

OriginDay == DaysFromCivil(2024, 1, 1)

CivilFromDays(z0) ==
    LET z   == z0 + 719468
        era == z \div 146097
        doe == z - era * 146097
        yoe == (doe - doe \div 1460 + doe \div 36524 - doe \div 146096) \div 365
        doy == doe - (365 * yoe + yoe \div 4 - yoe \div 100)
        mp  == (5 * doy + 2) \div 153
        d   == doy - (153 * mp + 2) \div 5 + 1
        m   == IF mp < 10 THEN mp + 3 ELSE mp - 9
        y   == yoe + era * 400 + (IF m <= 2 THEN 1 ELSE 0)
    IN  [year |-> y, month |-> m, date |-> d]

\* The moment built from calendar fields; hour 24 (accepted by the parser
\* for 24:00:00) rolls over into the next day.
MomentOf(y, mo, d, h, mi, s, ms) ==
    [valid |-> TRUE,
     s     |-> (DaysFromCivil(y, mo, d) - OriginDay) * SecondsPerDay
               + h * 3600 + mi * 60 + s,
     ms    |-> ms]

InvalidMoment == [valid |-> FALSE, s |-> 0, ms |-> 0]

DayOf(m) == m.s \div SecondsPerDay

\* ------------------------------------------------------------------------
\* moment#format('YYYY-MM-DDTHH:mm:ss')
\* ------------------------------------------------------------------------
RECURSIVE zeroFill(_, _)
zeroFill(n, width) ==
    IF width = 0 THEN <<>>
    ELSE Append(zeroFill(n \div 10, width - 1), Digits[(n % 10) + 1])

\* Date and time are separated by a space.
format_space(m) ==
    LET c   == CivilFromDays(DayOf(m) + OriginDay)
        sod == m.s % SecondsPerDay
    IN  zeroFill(c.year, 4) \o <<"-">> \o zeroFill(c.month, 2) \o <<"-">>
        \o zeroFill(c.date, 2) \o <<" ">> \o zeroFill(sod \div 3600, 2)
        \o <<":">> \o zeroFill((sod % 3600) \div 60, 2) \o <<":">>
        \o zeroFill(sod % 60, 2)

\* Hours are rendered on the 12-hour clock (hh).
format_12h(m) ==
    LET c   == CivilFromDays(DayOf(m) + OriginDay)
        sod == m.s % SecondsPerDay
        h   == sod \div 3600
        hh  == IF h % 12 = 0 THEN 12 ELSE h % 12
    IN  zeroFill(c.year, 4) \o <<"-">> \o zeroFill(c.month, 2) \o <<"-">>
        \o zeroFill(c.date, 2) \o <<"T">> \o zeroFill(hh, 2)
        \o <<":">> \o zeroFill((sod % 3600) \div 60, 2) \o <<":">>
        \o zeroFill(sod % 60, 2)

format(m) ==
    LET c   == CivilFromDays(DayOf(m) + OriginDay)
        sod == m.s % SecondsPerDay
    IN  zeroFill(c.year, 4) \o <<"-">> \o zeroFill(c.month, 2) \o <<"-">>
        \o zeroFill(c.date, 2) \o <<"T">> \o zeroFill(sod \div 3600, 2)
        \o <<":">> \o zeroFill((sod % 3600) \div 60, 2) \o <<":">>
        \o zeroFill(sod % 60, 2)

\* ------------------------------------------------------------------------
\* moment(text, 'YYYY-MM-DDTHH:mm:ss', true): strict parse
\* ------------------------------------------------------------------------
RECURSIVE NumberOf(_)
NumberOf(ds) ==
    IF ds = <<>> THEN 0
    ELSE NumberOf(SubSeq(ds, 1, Len(ds) - 1)) * 10 + DigitValue(ds[Len(ds)])

DigitPositions == {1, 2, 3, 4, 6, 7, 9, 10, 12, 13, 15, 16, 18, 19}

MatchesPattern(str) ==
    /\ Len(str) = 19
    /\ \A i \in DigitPositions : IsDigit(str[i])
    /\ str[5] = "-" /\ str[8] = "-" /\ str[11] = "T"
    /\ str[14] = ":" /\ str[17] = ":"

parseStrict(str) ==
    IF ~MatchesPattern(str) THEN InvalidMoment
    ELSE LET y  == NumberOf(SubSeq(str, 1, 4))
             mo == NumberOf(SubSeq(str, 6, 7))
             d  == NumberOf(SubSeq(str, 9, 10))
             h  == NumberOf(SubSeq(str, 12, 13))
             mi == NumberOf(SubSeq(str, 15, 16))
             s  == NumberOf(SubSeq(str, 18, 19))
         IN  IF /\ mo \in 1..12
                /\ d \in 1..daysInMonth(y, mo)
                /\ (h \in 0..23 \/ (h = 24 /\ mi = 0 /\ s = 0))
                /\ mi \in 0..59
                /\ s \in 0..59
             THEN MomentOf(y, mo, d, h, mi, s, 0)
             ELSE InvalidMoment

\* The difference without its sign.
diff_abs(a, b) ==
    LET ds  == a.s - b.s
        dms == a.ms - b.ms
        t   == IF ds > 0 /\ dms < 0 THEN ds - 1
               ELSE IF ds < 0 /\ dms > 0 THEN ds + 1
               ELSE ds
    IN  IF t < 0 THEN 0 - t ELSE t

\* moment#diff(other, 'seconds'): the difference in milliseconds divided by
\* 1000 and truncated toward zero.
diff(a, b) ==
    LET ds  == a.s - b.s
        dms == a.ms - b.ms
    IN  IF ds > 0 /\ dms < 0 THEN ds - 1
        ELSE IF ds < 0 /\ dms > 0 THEN ds + 1
        ELSE ds

\* Less than a day apart instead of on the same calendar day.
isSameDay_within24h(a, b) ==
    a.s - b.s < SecondsPerDay /\ b.s - a.s < SecondsPerDay

\* moment#isSame(other, 'day')
isSameDay(a, b) == DayOf(a) = DayOf(b)

\* ------------------------------------------------------------------------
\* Frontmatter values.  The 'last-modified' property is absent, a string,
\* an array of strings, or some other YAML value (a number, a mapping).
\* ------------------------------------------------------------------------
Absent      == [tag |-> "absent", str |-> <<>>, arr |-> <<>>]
OtherValue  == [tag |-> "other",  str |-> <<>>, arr |-> <<>>]
StringValue(s) == [tag |-> "string", str |-> s, arr |-> <<>>]
ArrayValue(a)  == [tag |-> "array",  str |-> <<>>, arr |-> a]

isArray(value) == value.tag = "array"

isString(value) == value.tag = "string"

\* ------------------------------------------------------------------------
\* Settings
\* ------------------------------------------------------------------------
MIN_UPDATE_INTERVAL == 60

MAX_UPDATE_INTERVAL == 84600

DEFAULT_SETTINGS ==
    [oneModificationPerDay |-> TRUE,
     updateInterval        |-> 60,
     ignoredFolders        |-> <<>>]

\* ------------------------------------------------------------------------
\* The update of one note
\* ------------------------------------------------------------------------
\* every() instead of some()
fileWithinIgnoredFolders_every(path, ignoredFolders) ==
    \A i \in 1..Len(ignoredFolders) :
        startsWith(path, ignoredFolders[i] \o <<"/">>)

\* The separator is left out of the comparison.
fileWithinIgnoredFolders_noSeparator(path, ignoredFolders) ==
    \E i \in 1..Len(ignoredFolders) :
        startsWith(path, ignoredFolders[i])

\* file.path starts with folder + '/' for some ignored folder
fileWithinIgnoredFolders(path, ignoredFolders) ==
    \E i \in 1..Len(ignoredFolders) :
        startsWith(path, ignoredFolders[i] \o <<"/">>)

\* The latest moment parsed without regard to the separators.
getLatestMomentFromProperty_lenient(value) ==
    LET text == IF isArray(value) /\ value.arr # <<>>
                THEN value.arr[Len(value.arr)]
                ELSE IF isString(value) THEN value.str ELSE <<>>
    IN  IF Len(text) = 19 /\ \A i \in DigitPositions : IsDigit(text[i])
        THEN parseStrict([i \in 1..19 |->
                 IF i \in {5, 8} THEN "-"
                 ELSE IF i = 11 THEN "T"
                 ELSE IF i \in {14, 17} THEN ":" ELSE text[i]])
        ELSE InvalidMoment

\* The moment is taken from the first element of an array.
getLatestMomentFromProperty_first(value) ==
    IF isArray(value)
    THEN IF value.arr = <<>> THEN InvalidMoment
         ELSE parseStrict(value.arr[1])
    ELSE IF isString(value) THEN parseStrict(value.str)
    ELSE InvalidMoment

\* The moment of the last element of an array (of the text 'undefined' when
\* the array is empty), of a string value, or none.
getLatestMomentFromProperty(value) ==
    IF isArray(value)
    THEN IF value.arr = <<>> THEN InvalidMoment
         ELSE parseStrict(value.arr[Len(value.arr)])
    ELSE IF isString(value) THEN parseStrict(value.str)
    ELSE InvalidMoment

\* The assignment starts a new array holding only the new entry.
SetIndex_restart(entries, finalIndex, newEntry) == <<newEntry>>

\* An index past the end of the array is not assigned.
SetIndex_strict(entries, finalIndex, newEntry) ==
    IF finalIndex < Len(entries)
    THEN [entries EXCEPT ![finalIndex + 1] = newEntry]
    ELSE entries

\* newEntries[finalIndex] = newEntry, finalIndex counted from 0
SetIndex(entries, finalIndex, newEntry) ==
    IF finalIndex < Len(entries)
    THEN [entries EXCEPT ![finalIndex + 1] = newEntry]
    ELSE Append(entries, newEntry)

Max(a, b) == IF a >= b THEN a ELSE b

\* Infinity, or a finite number of seconds
Infinity == [inf |-> TRUE, n |-> 0]

Finite(n) == [inf |-> FALSE, n |-> n]

\* secondsSinceLastUpdate starts at 0 instead of Infinity.
secondsSinceLastUpdate_fromZero(isOneModificationPerDay, previousMoment, currentMoment) ==
    IF ~isOneModificationPerDay /\ previousMoment.valid
    THEN Finite(diff(currentMoment, previousMoment))
    ELSE Finite(0)

\* secondsSinceLastUpdate stays Infinity unless interval mode finds a valid
\* previous moment.
secondsSinceLastUpdate(isOneModificationPerDay, previousMoment, currentMoment) ==
    IF ~isOneModificationPerDay /\ previousMoment.valid
    THEN Finite(diff(currentMoment, previousMoment))
    ELSE Infinity

\* A new entry is also written when the interval has just been reached.
exceedsInterval_orEqual(seconds, updateInterval) ==
    seconds.inf \/ seconds.n >= updateInterval

\* secondsSinceLastUpdate > updateInterval
exceedsInterval(seconds, updateInterval) ==
    seconds.inf \/ seconds.n > updateInterval

\* The new entries start from an empty array whatever the value.
existingEntries_fresh(value) == <<>>

\* A string value is kept as the first entry.
existingEntries_wrap(value) ==
    IF isArray(value) THEN value.arr
    ELSE IF isString(value) THEN <<value.str>> ELSE <<>>

\* newEntries before the new entry is written: the array itself, or []
existingEntries(value) == IF isArray(value) THEN value.arr ELSE <<>>

\* The index one past the last entry.
finalIndexOf_length(value) ==
    IF isArray(value) THEN Len(value.arr) ELSE 0

\* The index of the first entry.
finalIndexOf_zero(value) == 0

\* finalIndex: the index of the last entry, 0 for an empty array or no array
finalIndexOf(value) ==
    IF isArray(value) THEN Max(Len(value.arr) - 1, 0) ELSE 0

\* The last entry of the day is replaced whatever the mode.
replacesLastEntry_anyMode(isOneModificationPerDay, previousMoment, currentMoment) ==
    /\ previousMoment.valid
    /\ isSameDay(currentMoment, previousMoment)

\* A new entry is pushed on every update.
replacesLastEntry_never(isOneModificationPerDay, previousMoment, currentMoment) ==
    FALSE

\* The last entry is replaced instead of a new one pushed.
replacesLastEntry(isOneModificationPerDay, previousMoment, currentMoment) ==
    /\ isOneModificationPerDay
    /\ previousMoment.valid
    /\ isSameDay(currentMoment, previousMoment)

\* A new entry equal to the last one is not written again.
updateFrontmatter_suppress(path, value, currentMoment, cfg) ==
    IF fileWithinIgnoredFolders(path, cfg.ignoredFolders)
    THEN [value |-> value, mutated |-> FALSE]
    ELSE
    LET isOneModificationPerDay == cfg.oneModificationPerDay
        previousMoment == getLatestMomentFromProperty(value)
        seconds    == secondsSinceLastUpdate(isOneModificationPerDay,
                                             previousMoment, currentMoment)
        newEntry   == format(currentMoment)
        newEntries == existingEntries(value)
    IN  IF ~exceedsInterval(seconds, cfg.updateInterval)
        THEN [value |-> value, mutated |-> FALSE]
        ELSE IF replacesLastEntry(isOneModificationPerDay, previousMoment,
                                  currentMoment)
        THEN IF isArray(value) /\ newEntries # <<>>
                /\ newEntries[Len(newEntries)] = newEntry
             THEN [value |-> value, mutated |-> FALSE]
             ELSE [value   |-> ArrayValue(SetIndex(newEntries,
                                                   finalIndexOf(value),
                                                   newEntry)),
                   mutated |-> TRUE]
        ELSE [value   |-> ArrayValue(Append(newEntries, newEntry)),
              mutated |-> TRUE]

\* The callback handed to processFrontMatter: the new value of the
\* 'last-modified' property and whether the property was assigned.
updateFrontmatter(path, value, currentMoment, cfg) ==
    IF fileWithinIgnoredFolders(path, cfg.ignoredFolders)
    THEN [value |-> value, mutated |-> FALSE]
    ELSE
    LET isOneModificationPerDay == cfg.oneModificationPerDay
        previousMoment == getLatestMomentFromProperty(value)
        seconds    == secondsSinceLastUpdate(isOneModificationPerDay,
                                             previousMoment, currentMoment)
        newEntry   == format(currentMoment)
        newEntries == existingEntries(value)
    IN  IF ~exceedsInterval(seconds, cfg.updateInterval)
        THEN [value |-> value, mutated |-> FALSE]
        ELSE IF replacesLastEntry(isOneModificationPerDay, previousMoment,
                                  currentMoment)
        THEN [value   |-> ArrayValue(SetIndex(newEntries, finalIndexOf(value),
                                              newEntry)),
              mutated |-> TRUE]
        ELSE [value   |-> ArrayValue(Append(newEntries, newEntry)),
              mutated |-> TRUE]

\* ------------------------------------------------------------------------
\* Text used by the notes, folders and entries of the model
\* ------------------------------------------------------------------------
Slash == <<"/">>

FolderA       == <<"A">>
FolderB       == <<"B">>
FolderArch    == <<"A", "r", "c", "h">>
FolderArchive == <<"A", "r", "c", "h", "i", "v", "e">>
NoteName      == <<"n", ".", "m", "d">>

RECURSIVE JoinPath(_)
JoinPath(segments) ==
    IF Len(segments) = 1 THEN segments[1]
    ELSE JoinPath(SubSeq(segments, 1, Len(segments) - 1)) \o Slash
         \o segments[Len(segments)]

\* A time stamp text with chosen separators, for entries written by hand or
\* by other tools.
Stamp(y, mo, d, h, mi, s, dateSep, timeSep) ==
    zeroFill(y, 4) \o <<"-">> \o zeroFill(mo, 2) \o <<"-">> \o zeroFill(d, 2)
    \o dateSep \o zeroFill(h, 2) \o timeSep \o zeroFill(mi, 2) \o timeSep
    \o zeroFill(s, 2)

T == <<"T">>
Colon == <<":">>

\* Entries that parse strictly.  Entry24 is the text 24:00:00, which the
\* parser accepts as midnight of the following day.
Entry1000 == Stamp(2024, 1, 1, 10, 0, 0, T, Colon)
Entry2359 == Stamp(2024, 1, 1, 23, 59, 59, T, Colon)
Entry24   == Stamp(2024, 1, 1, 24, 0, 0, T, Colon)

\* Entries that do not: a blank instead of 'T', month 13, and the literal
\* 'yyyy' that an unknown format token leaves behind.
EntryBlank   == Stamp(2024, 1, 1, 10, 0, 0, <<" ">>, Colon)
EntryMonth13 == Stamp(2024, 13, 1, 10, 0, 0, T, Colon)
EntryLegacy  == <<"y", "y", "y", "y">> \o SubSeq(Entry1000, 5, 19)

\* An element that is not a string, the number 5: moment reads it through
\* its text.
EntryNumber == <<"5">>

ValidEntries == {Entry1000, Entry2359, Entry24}
BadEntries   == {EntryBlank, EntryMonth13, EntryLegacy}

RECURSIVE SeqsUpTo(_, _)
SeqsUpTo(S, n) ==
    IF n = 0 THEN {<<>>}
    ELSE LET shorter == SeqsUpTo(S, n - 1)
         IN  shorter \cup {Append(q, e) : q \in {r \in shorter : Len(r) = n - 1},
                                          e \in S}

\* ------------------------------------------------------------------------
\* One update of one note, for every input: a vault holding a single note,
\* any settings, any clock value.
\* ------------------------------------------------------------------------
ApplyPaths ==
    {NoteName,
     JoinPath(<<FolderA, NoteName>>),
     JoinPath(<<FolderA, FolderB, NoteName>>),
     JoinPath(<<FolderArch, NoteName>>),
     JoinPath(<<FolderArchive, NoteName>>)}

ApplyValues ==
    {Absent, OtherValue, StringValue(Entry1000), StringValue(EntryBlank)}
    \cup {ArrayValue(a) : a \in SeqsUpTo(ValidEntries \cup BadEntries, MaxLen)}
    \cup {ArrayValue(<<EntryNumber>>), ArrayValue(<<Entry1000, EntryNumber>>)}

ApplyIgnoredFolders ==
    {<<>>, <<FolderArch>>, <<FolderA>>, <<FolderArchive, FolderB>>,
     <<JoinPath(<<FolderA, FolderB>>)>>}

ApplySettings ==
    [oneModificationPerDay : BOOLEAN,
     updateInterval        : {MIN_UPDATE_INTERVAL, 120, MAX_UPDATE_INTERVAL},
     ignoredFolders        : ApplyIgnoredFolders]

ApplyMoments ==
    {MomentOf(2024, 1, 1,  9,  0,  0,   0),
     MomentOf(2024, 1, 1,  9, 59, 59, 500),
     MomentOf(2024, 1, 1, 10,  0,  0,   0),
     MomentOf(2024, 1, 1, 10,  0, 30,   0),
     MomentOf(2024, 1, 1, 10,  1,  0, 900),
     MomentOf(2024, 1, 1, 10,  1,  1,   0),
     MomentOf(2024, 1, 1, 10,  2,  0,   0),
     MomentOf(2024, 1, 1, 15, 30,  0,   0),
     MomentOf(2024, 1, 2,  0,  0,  1,   0),
     MomentOf(2024, 1, 2,  9, 30,  0,   0),
     MomentOf(2024, 1, 2,  9, 30,  1,   0),
     MomentOf(2024, 2, 1, 10,  0,  0,   0),
     MomentOf(2025, 1, 1, 10,  0,  0,   0)}

\* LogKeeperTab.warning_msg: empty, or what is wrong with the text typed
\* into the interval field
NoWarning == [kind |-> "none", n |-> 0]

NotValid == [kind |-> "not a valid value", n |-> 0]

TooLow(n) == [kind |-> "too low", n |-> n]

TooHigh(n) == [kind |-> "too high", n |-> n]

\* data.json: nothing saved yet, or the settings as last saved
NoData == [present |-> FALSE, value |-> DEFAULT_SETTINGS]

Saved(value) == [present |-> TRUE, value |-> value]

\* The rest of a note's frontmatter: here one more property, a title that
\* is the note's path
TitleOf(values) == [f \in DOMAIN values |-> StringValue(f)]

\* No 'modify' event has been followed from firing to its callback.
NoHistory == [start |-> <<>>, calls |-> <<>>]

NoCall ==
    [op |-> "none", file |-> <<>>, now |-> InvalidMoment, before |-> Absent,
     cfg |-> DEFAULT_SETTINGS, mutated |-> FALSE]

\* ------------------------------------------------------------------------
\* Actions
\* ------------------------------------------------------------------------
\* The callback hands back a block that holds last-modified alone.
Modify_replaceBlock(file, currentMoment) ==
    /\ file \in DOMAIN frontmatter
    /\ LET r == updateFrontmatter(file, frontmatter[file], currentMoment, settings)
       IN  /\ frontmatter' = [frontmatter EXCEPT ![file] = r.value]
           /\ otherProperties' = IF r.mutated
                                    THEN [otherProperties EXCEPT ![file] = Absent]
                                    ELSE otherProperties
           /\ last' = [op |-> "update", file |-> file, now |-> currentMoment,
                       before |-> frontmatter[file], cfg |-> settings,
                       mutated |-> r.mutated]
    /\ UNCHANGED <<settings, data, warning_msg, rendered, pending, history>>

\* The vault's 'modify' event for a note when no other event of the vault is
\* in flight: updateFrontmatter(file), run by processFrontMatter as one
\* read-modify-write of the note's frontmatter.  Only 'last-modified' is
\* assigned.
Modify(file, currentMoment) ==
    /\ file \in DOMAIN frontmatter
    /\ LET r == updateFrontmatter(file, frontmatter[file], currentMoment, settings)
       IN  /\ frontmatter' = [frontmatter EXCEPT ![file] = r.value]
           /\ last' = [op |-> "update", file |-> file, now |-> currentMoment,
                       before |-> frontmatter[file], cfg |-> settings,
                       mutated |-> r.mutated]
    /\ UNCHANGED <<settings, data, warning_msg, rendered, otherProperties,
                   pending, history>>

InitApply ==
    /\ settings \in ApplySettings
    /\ warning_msg = NoWarning
    /\ data = Saved(settings)
    /\ \E file \in ApplyPaths, value \in ApplyValues :
           frontmatter = [f \in {file} |-> value]
    /\ rendered = settings.ignoredFolders
    /\ otherProperties = TitleOf(frontmatter)
    /\ pending = <<>>
    /\ history = NoHistory
    /\ last = NoCall

Apply ==
    /\ last.op = "none"
    /\ \E file \in DOMAIN frontmatter, currentMoment \in ApplyMoments :
           Modify(file, currentMoment)

NextApply == Apply

SpecApply == InitApply /\ [][NextApply]_vars

\* ------------------------------------------------------------------------
\* The running plugin: a vault with two notes and two folders, the settings
\* tab, and the clock.
\* ------------------------------------------------------------------------
VaultNotes == {NoteName, JoinPath(<<FolderArchive, NoteName>>)}

\* FolderSuggestModal.getFolderNames: the folders of the vault below the root
VaultFolders == {FolderArch, FolderArchive}

InitialValues == {Absent, StringValue(Entry1000), ArrayValue(<<EntryLegacy>>)}

\* The clock is read in any order, so it also runs backward.
ClockMoments ==
    {MomentOf(2024, 1, 1, 10,  0, 30,   0),
     MomentOf(2024, 1, 1, 10,  2,  0,   0),
     MomentOf(2024, 1, 2,  0,  0,  1,   0)}

\* What is typed into the update interval field, after Number(value)
NaN == [nan |-> TRUE, n |-> 0]

Num(n) == [nan |-> FALSE, n |-> n]

IntervalInputs == {NaN, Num(120)}

\* loadSettings: Object.assign({}, DEFAULT_SETTINGS, await this.loadData())
loadSettings(saved) == IF saved.present THEN saved.value ELSE DEFAULT_SETTINGS

Init ==
    /\ data = NoData
    /\ warning_msg = NoWarning
    /\ settings = loadSettings(data)
    /\ frontmatter \in [VaultNotes -> InitialValues]
    /\ rendered = settings.ignoredFolders
    /\ otherProperties = TitleOf(frontmatter)
    /\ pending = <<>>
    /\ history = NoHistory
    /\ last = NoCall

\* The plugin is loaded again: settings are read back from data.json.
onload ==
    /\ settings' = loadSettings(data)
    /\ warning_msg' = NoWarning
    /\ last' = NoCall
    /\ rendered' = settings'.ignoredFolders
    /\ UNCHANGED <<data, frontmatter, otherProperties, pending, history>>

\* Toggle 'per day logging': onChange(value), saveSettings, display
ToggleChange(value) ==
    /\ settings' = [settings EXCEPT !.oneModificationPerDay = value]
    /\ data' = Saved(settings')
    /\ rendered' = settings'.ignoredFolders
    /\ last' = NoCall
    /\ UNCHANGED <<warning_msg, frontmatter, otherProperties, pending, history>>

\* The bounds are applied the other way round.
clampInterval_swapped(valueNumber) ==
    IF valueNumber < MIN_UPDATE_INTERVAL THEN MAX_UPDATE_INTERVAL
    ELSE IF valueNumber > MAX_UPDATE_INTERVAL THEN MIN_UPDATE_INTERVAL
    ELSE valueNumber

\* The value the update interval handler assigns for a number
clampInterval(valueNumber) ==
    IF valueNumber < MIN_UPDATE_INTERVAL THEN MIN_UPDATE_INTERVAL
    ELSE IF valueNumber > MAX_UPDATE_INTERVAL THEN MAX_UPDATE_INTERVAL
    ELSE valueNumber

\* The warning the update interval handler leaves for hide()
warningFor(input, previous) ==
    IF input.nan THEN NotValid
    ELSE IF input.n < MIN_UPDATE_INTERVAL THEN TooLow(input.n)
    ELSE IF input.n > MAX_UPDATE_INTERVAL THEN TooHigh(input.n)
    ELSE previous

\* Text field 'Update interval': onChange(value).  Text that is not a number
\* returns before anything is assigned or saved.
IntervalChange(input) ==
    /\ IF input.nan
       THEN UNCHANGED <<settings, data>>
       ELSE /\ settings' = [settings EXCEPT !.updateInterval = clampInterval(input.n)]
            /\ data' = Saved(settings')
    /\ warning_msg' = warningFor(input, warning_msg)
    /\ last' = NoCall
    /\ UNCHANGED <<rendered, frontmatter, otherProperties, pending, history>>

\* The settings tab is closed: a pending warning is shown and cleared.
hide ==
    /\ warning_msg' = NoWarning
    /\ last' = NoCall
    /\ UNCHANGED <<settings, data, rendered, frontmatter, otherProperties,
                   pending, history>>

includes(list, item) == \E i \in 1..Len(list) : list[i] = item

\* The chosen folder is pushed whether or not the list has it.
ChooseFolder_always(folderPath) ==
    /\ settings' = [settings EXCEPT !.ignoredFolders = Append(@, folderPath)]
    /\ data' = Saved(settings')
    /\ rendered' = settings'.ignoredFolders
    /\ last' = NoCall
    /\ UNCHANGED <<warning_msg, frontmatter, otherProperties, pending, history>>

\* FolderSuggestModal callback: a folder is chosen
ChooseFolder(folderPath) ==
    /\ settings' = [settings EXCEPT !.ignoredFolders =
                       IF includes(@, folderPath) THEN @ ELSE Append(@, folderPath)]
    /\ data' = Saved(settings')
    /\ rendered' = settings'.ignoredFolders
    /\ last' = NoCall
    /\ UNCHANGED <<warning_msg, frontmatter, otherProperties, pending, history>>

\* Array.prototype.splice(index, 1), index counted from 0
splice1(list, index) ==
    SubSeq(list, 1, index) \o SubSeq(list, index + 2, Len(list))

\* Delete button of the row rendered for ignoredFolders[index]
DeleteFolder(index) ==
    /\ index \in 0..(Len(settings.ignoredFolders) - 1)
    /\ settings' = [settings EXCEPT !.ignoredFolders = splice1(@, index)]
    /\ data' = Saved(settings')
    /\ rendered' = settings'.ignoredFolders
    /\ last' = NoCall
    /\ UNCHANGED <<warning_msg, frontmatter, otherProperties, pending, history>>

\* A note is modified while the clock shows any of the moments.
ModifyNote ==
    \E file \in DOMAIN frontmatter, currentMoment \in ClockMoments :
        /\ Modify(file, currentMoment)
        /\ Len(frontmatter'[file].arr) <= MaxLog

Toggle == \E value \in BOOLEAN : ToggleChange(value)

TypeInterval == \E input \in IntervalInputs : IntervalChange(input)

AddFolder == \E folderPath \in VaultFolders : ChooseFolder(folderPath)

RemoveFolder == \E index \in 0..1 : DeleteFolder(index)

Next ==
    \/ ModifyNote
    \/ Toggle
    \/ TypeInterval
    \/ AddFolder
    \/ RemoveFolder
    \/ hide
    \/ onload

Spec == Init /\ [][Next]_vars

\* ------------------------------------------------------------------------
\* Per-day logging left on, from a vault of notes that have no entries yet,
\* with a clock that does not run backward: a note is never modified at a
\* moment earlier than an entry of its log.
\* ------------------------------------------------------------------------
EmptyValues == {Absent, ArrayValue(<<>>)}

PerDayMoments ==
    {MomentOf(2024, 1,  1, 10,  0, 30,   0),
     MomentOf(2024, 1,  1, 23, 59, 59, 500),
     MomentOf(2024, 1,  2,  0,  0,  1,   0),
     MomentOf(2024, 1,  2, 12,  0,  0,   0),
     MomentOf(2024, 2,  2,  0,  0,  1,   0)}

NotEarlier(currentMoment, value) ==
    \A i \in 1..Len(value.arr) :
        LET entry == parseStrict(value.arr[i])
        IN  entry.valid => entry.s <= currentMoment.s

InitPerDay ==
    /\ data = NoData
    /\ warning_msg = NoWarning
    /\ settings = loadSettings(data)
    /\ frontmatter \in [VaultNotes -> EmptyValues]
    /\ rendered = settings.ignoredFolders
    /\ otherProperties = TitleOf(frontmatter)
    /\ pending = <<>>
    /\ history = NoHistory
    /\ last = NoCall

ModifyLater ==
    \E file \in DOMAIN frontmatter, currentMoment \in PerDayMoments :
        /\ NotEarlier(currentMoment, frontmatter[file])
        /\ Modify(file, currentMoment)
        /\ Len(frontmatter'[file].arr) <= MaxLog

NextPerDay ==
    \/ ModifyLater
    \/ TypeInterval
    \/ AddFolder
    \/ RemoveFolder
    \/ hide
    \/ onload

SpecPerDay == InitPerDay /\ [][NextPerDay]_vars

\* ------------------------------------------------------------------------
\* The settings tab on its own: any text typed into the interval field, any
\* folder of a vault with four folders, and a data.json that is missing or
\* was saved by the earlier revision of the plugin kept in src/main.ts.
\* ------------------------------------------------------------------------
\* src/main.ts: the default interval of the earlier revision
DEFAULT_SETTINGS_main ==
    [oneModificationPerDay |-> TRUE,
     updateInterval        |-> 2]

\* data.json as the earlier revision saves it when its toggle is changed:
\* the interval is still the default; loadSettings fills in ignoredFolders.
SavedByMain(value) ==
    Saved([oneModificationPerDay |-> value,
           updateInterval        |-> DEFAULT_SETTINGS_main.updateInterval,
           ignoredFolders        |-> DEFAULT_SETTINGS.ignoredFolders])

SettingsFolders == {FolderA, FolderB, FolderArch, FolderArchive}

SettingsIntervalInputs ==
    {NaN, Num(0), Num(59), Num(60), Num(61), Num(3600), Num(84600), Num(84601),
     Num(86400)}

InitSettings ==
    /\ data \in {NoData} \cup {SavedByMain(value) : value \in BOOLEAN}
    /\ warning_msg = NoWarning
    /\ settings = loadSettings(data)
    /\ frontmatter = [f \in {NoteName} |-> Absent]
    /\ rendered = settings.ignoredFolders
    /\ otherProperties = TitleOf(frontmatter)
    /\ pending = <<>>
    /\ history = NoHistory
    /\ last = NoCall

TypeAnyInterval == \E input \in SettingsIntervalInputs : IntervalChange(input)

AddAnyFolder == \E folderPath \in SettingsFolders : ChooseFolder(folderPath)

RemoveAnyFolder ==
    \E index \in 0..(Cardinality(SettingsFolders) - 1) : DeleteFolder(index)

NextSettings ==
    \/ Toggle
    \/ TypeAnyInterval
    \/ AddAnyFolder
    \/ RemoveAnyFolder
    \/ hide
    \/ onload

SpecSettings == InitSettings /\ [][NextSettings]_vars

\* ------------------------------------------------------------------------
\* The codec on its own: a note without entries is stamped at a moment of any
\* of the years, days, times of day and milliseconds below.
\* ------------------------------------------------------------------------
\* Years whose seconds, counted from 2024, fit the 32-bit integers of the
\* checker
CodecYears == {1960, 1970, 1999, 2000, 2023, 2024, 2038, 2090}

CodecDays == {<<1, 1>>, <<2, 28>>, <<2, 29>>, <<3, 1>>, <<10, 9>>, <<12, 31>>}

CodecTimes == {<<0, 0, 0>>, <<9, 5, 7>>, <<12, 34, 56>>, <<23, 59, 59>>}

CodecMillis == {0, 999}

\* The days that exist in year y
CodecDaysOf(y) == {md \in CodecDays : md[2] <= daysInMonth(y, md[1])}

CodecMomentsOf(y) ==
    {MomentOf(y, md[1], md[2], t[1], t[2], t[3], ms) :
        md \in CodecDaysOf(y), t \in CodecTimes, ms \in CodecMillis}

CodecMoments == UNION {CodecMomentsOf(y) : y \in CodecYears}

InitCodec ==
    /\ data = NoData
    /\ warning_msg = NoWarning
    /\ settings = loadSettings(data)
    /\ frontmatter = [f \in {NoteName} |-> Absent]
    /\ rendered = settings.ignoredFolders
    /\ otherProperties = TitleOf(frontmatter)
    /\ pending = <<>>
    /\ history = NoHistory
    /\ last = NoCall

StampAt ==
    /\ last.op = "none"
    /\ \E currentMoment \in CodecMoments : Modify(NoteName, currentMoment)

NextCodec == StampAt

SpecCodec == InitCodec /\ [][NextCodec]_vars

\* ------------------------------------------------------------------------
\* The running plugin on a note, kept in a folder that can be ignored, whose
\* log is absent or holds only entries that parse.
\* ------------------------------------------------------------------------
WellFormedValues ==
    {Absent, ArrayValue(<<>>), ArrayValue(<<Entry1000>>), ArrayValue(<<Entry24>>)}

InitWellFormed ==
    /\ data = NoData
    /\ warning_msg = NoWarning
    /\ settings = loadSettings(data)
    /\ frontmatter \in [{JoinPath(<<FolderArchive, NoteName>>)} -> WellFormedValues]
    /\ rendered = settings.ignoredFolders
    /\ otherProperties = TitleOf(frontmatter)
    /\ pending = <<>>
    /\ history = NoHistory
    /\ last = NoCall

SpecWellFormed == InitWellFormed /\ [][Next]_vars

\* ------------------------------------------------------------------------
\* The running plugin with a clock that does not run backward, on a note
\* whose log starts absent or in chronological order; both modes.
\* ------------------------------------------------------------------------
OrderedValues ==
    {Absent, ArrayValue(<<>>), ArrayValue(<<Entry1000>>),
     ArrayValue(<<Entry1000, Entry2359>>), ArrayValue(<<Entry1000, Entry24>>)}

InitOrdered ==
    /\ data = NoData
    /\ warning_msg = NoWarning
    /\ settings = loadSettings(data)
    /\ frontmatter \in [{JoinPath(<<FolderArchive, NoteName>>)} -> OrderedValues]
    /\ rendered = settings.ignoredFolders
    /\ otherProperties = TitleOf(frontmatter)
    /\ pending = <<>>
    /\ history = NoHistory
    /\ last = NoCall

NextOrdered ==
    \/ ModifyLater
    \/ Toggle
    \/ TypeInterval
    \/ AddFolder
    \/ RemoveFolder
    \/ hide
    \/ onload

SpecOrdered == InitOrdered /\ [][NextOrdered]_vars

\* ------------------------------------------------------------------------
\* The rows of the ignored folders as display() rendered them, each with the
\* index it had then.  A delete button removes at its index at once, awaits
\* saveSettings, and only then calls display(); a click on another row can
\* arrive in between.
\* ------------------------------------------------------------------------
InitDelete ==
    /\ data = NoData
    /\ warning_msg = NoWarning
    /\ settings = loadSettings(data)
    /\ rendered = settings.ignoredFolders
    /\ frontmatter = [f \in {NoteName} |-> Absent]
    /\ otherProperties = TitleOf(frontmatter)
    /\ pending = <<>>
    /\ history = NoHistory
    /\ last = NoCall

\* ignoredFolders.splice(index, 1) with the index the row was rendered
\* with: past the end of the list nothing is removed.
spliceAt(list, index) ==
    IF index < Len(list) THEN splice1(list, index) ELSE list

\* onClick of the delete button of the row rendered with this index, up to
\* its await
ClickDelete(index) ==
    /\ index \in 0..(Len(rendered) - 1)
    /\ settings' = [settings EXCEPT !.ignoredFolders =
                       spliceAt(@, index)]
    /\ last' = [NoCall EXCEPT !.op = "delete", !.file = rendered[index + 1]]
    /\ UNCHANGED <<data, warning_msg, rendered, frontmatter, otherProperties,
                   pending, history>>

\* saveSettings has resolved: the settings are in data.json and display()
\* renders the rows again.
Redisplay ==
    /\ data # Saved(settings) \/ rendered # settings.ignoredFolders
    /\ data' = Saved(settings)
    /\ rendered' = settings.ignoredFolders
    /\ last' = NoCall
    /\ UNCHANGED <<settings, warning_msg, frontmatter, otherProperties,
                   pending, history>>

ClickAnyDelete ==
    \E index \in 0..(Cardinality(SettingsFolders) - 1) : ClickDelete(index)

NextDelete ==
    \/ AddAnyFolder
    \/ ClickAnyDelete
    \/ Redisplay

SpecDelete == InitDelete /\ [][NextDelete]_vars

\* ------------------------------------------------------------------------
\* Events in flight: the 'modify' handler calls updateFrontmatter and does
\* not await it, so an event of the vault fires while the callbacks of
\* earlier ones are still to run.  processFrontMatter runs each callback, and
\* writes the block it leaves, as one step.
\* ------------------------------------------------------------------------
MaxEvents == 2

EventValues == {Absent, ArrayValue(<<Entry1000>>)}

InitEvents ==
    /\ data = NoData
    /\ warning_msg = NoWarning
    /\ settings = loadSettings(data)
    /\ frontmatter \in [VaultNotes -> EventValues]
    /\ rendered = settings.ignoredFolders
    /\ otherProperties = TitleOf(frontmatter)
    /\ pending = <<>>
    /\ history = [start |-> frontmatter, calls |-> <<>>]
    /\ last = NoCall

\* vault.on('modify'): this.updateFrontmatter(file), not awaited.  The event
\* is remembered with the value the note's property has when it fires.
FireModify(file) ==
    /\ file \in DOMAIN frontmatter
    /\ Len(pending) + Len(history.calls) < MaxEvents
    /\ pending' = Append(pending, [file |-> file, seen |-> frontmatter[file]])
    /\ UNCHANGED <<settings, data, warning_msg, rendered, frontmatter,
                   otherProperties, history, last>>

\* The property is taken from the metadata as it was when the event fired.
getPropertyFromFrontMatter_cache(job, yamlData) == job.seen

\* The value of 'last-modified' in the block handed to the callback
getPropertyFromFrontMatter(job, yamlData) == yamlData[job.file]

\* processFrontMatter runs the callback of an event in flight.
RunCallback(index, currentMoment) ==
    /\ index \in 1..Len(pending)
    /\ LET job   == pending[index]
           value == getPropertyFromFrontMatter(job, frontmatter)
           r     == updateFrontmatter(job.file, value, currentMoment, settings)
       IN  /\ frontmatter' = IF r.mutated
                              THEN [frontmatter EXCEPT ![job.file] = r.value]
                              ELSE frontmatter
           /\ last' = [op |-> "update", file |-> job.file, now |-> currentMoment,
                       before |-> value, cfg |-> settings,
                       mutated |-> r.mutated]
           /\ history' = [history EXCEPT !.calls =
                             Append(@, [file |-> job.file, now |-> currentMoment,
                                        cfg |-> settings, seen |-> job.seen])]
    /\ pending' = splice1(pending, index - 1)
    /\ UNCHANGED <<settings, data, warning_msg, rendered, otherProperties>>

Fire == \E file \in DOMAIN frontmatter : FireModify(file)

Run ==
    \E index \in 1..MaxEvents, currentMoment \in ClockMoments :
        RunCallback(index, currentMoment)

NextEvents ==
    \/ Fire
    \/ Run
    \/ Toggle

SpecEvents == InitEvents /\ [][NextEvents]_vars

\* ------------------------------------------------------------------------
\* Vocabulary of the properties: the last update, seen from outside
\* ------------------------------------------------------------------------
Called == last.op = "update"

Before == last.before

After == frontmatter[last.file]

\* The log L is an array whose last entry parses.
LastEntry(value) == value.arr[Len(value.arr)]

HasValidLast(value) ==
    isArray(value) /\ value.arr # <<>> /\ parseStrict(LastEntry(value)).valid

HasInvalidLast(value) ==
    isArray(value) /\ value.arr # <<>> /\ ~parseStrict(LastEntry(value)).valid

\* Path segments, and lying under a folder segment by segment.
RECURSIVE Segments(_)
Segments(path) ==
    IF \A i \in 1..Len(path) : path[i] # "/" THEN <<path>>
    ELSE LET k == CHOOSE i \in 1..Len(path) :
                      path[i] = "/" /\ \A j \in 1..(i - 1) : path[j] # "/"
         IN  <<SubSeq(path, 1, k - 1)>> \o Segments(SubSeq(path, k + 1, Len(path)))

LiesUnder(path, folder) ==
    LET ps == Segments(path)
        fs == Segments(folder)
    IN  Len(fs) < Len(ps) /\ SubSeq(ps, 1, Len(fs)) = fs

LiesUnderSome(path, folders) ==
    \E i \in 1..Len(folders) : LiesUnder(path, folders[i])

NotIgnored == ~LiesUnderSome(last.file, last.cfg.ignoredFolders)

\* (year, month, day) as rendered
CalendarDay(m) == SubSeq(format(m), 1, 10)

SameCalendarDay(a, b) == CalendarDay(a) = CalendarDay(b)

PreviousInstant == parseStrict(LastEntry(Before))

Elapsed == diff(last.now, PreviousInstant)

Appended == ArrayValue(Append(Before.arr, format(last.now)))

C2_IntervalAppends ==
    (/\ Called /\ NotIgnored
     /\ ~last.cfg.oneModificationPerDay
     /\ HasValidLast(Before)
     /\ Elapsed > last.cfg.updateInterval)
    => (After = Appended /\ last.mutated)

C2_Witness ==
    /\ Called /\ NotIgnored
    /\ ~last.cfg.oneModificationPerDay
    /\ HasValidLast(Before)
    /\ Elapsed > last.cfg.updateInterval
    /\ SameCalendarDay(last.now, PreviousInstant)
    /\ Len(After.arr) = Len(Before.arr) + 1
    /\ LastEntry(After) = Stamp(2024, 1, 1, 10, 2, 0, T, Colon)

\* C3: in one-modification-per-day mode, when the last entry parses and the
\* current moment is on its calendar day, the log keeps its length, its last
\* entry becomes the formatted current moment and the entries before it are
\* unchanged.
C3_Collapse ==
    (/\ Called /\ NotIgnored
     /\ last.cfg.oneModificationPerDay
     /\ HasValidLast(Before)
     /\ SameCalendarDay(last.now, PreviousInstant))
    => /\ isArray(After)
       /\ Len(After.arr) = Len(Before.arr)
       /\ LastEntry(After) = format(last.now)
       /\ \A i \in 1..(Len(Before.arr) - 1) : After.arr[i] = Before.arr[i]

C3_Witness ==
    /\ Called /\ NotIgnored
    /\ last.cfg.oneModificationPerDay
    /\ HasValidLast(Before)
    /\ SameCalendarDay(last.now, PreviousInstant)
    /\ Len(Before.arr) = 2
    /\ Len(After.arr) = 2
    /\ LastEntry(Before) = Entry1000
    /\ LastEntry(After) = Stamp(2024, 1, 1, 15, 30, 0, T, Colon)
    /\ After.arr[1] = Before.arr[1]

\* C4: in one-modification-per-day mode, when the last entry parses and the
\* current moment is on another calendar day, the formatted current moment is
\* appended, however little time has elapsed.
C4_NewDayAppends ==
    (/\ Called /\ NotIgnored
     /\ last.cfg.oneModificationPerDay
     /\ HasValidLast(Before)
     /\ ~SameCalendarDay(last.now, PreviousInstant))
    => (After = Appended /\ last.mutated)

C4_Witness ==
    /\ Called /\ NotIgnored
    /\ last.cfg.oneModificationPerDay
    /\ HasValidLast(Before)
    /\ LastEntry(Before) = Entry2359
    /\ last.now = MomentOf(2024, 1, 2, 0, 0, 1, 0)
    /\ Elapsed = 2
    /\ After = Appended /\ last.mutated

\* C5: when an update of an array-valued log writes and does not replace the
\* last entry (either mode), the new log is one longer, its earlier entries
\* are the old log in order and its last entry is the formatted current
\* moment.
TakesAppendBranch ==
    /\ Called /\ last.mutated
    /\ isArray(Before)
    /\ ~(/\ last.cfg.oneModificationPerDay
         /\ HasValidLast(Before)
         /\ SameCalendarDay(last.now, PreviousInstant))

C5_AppendInvariant ==
    TakesAppendBranch
    => /\ isArray(After)
       /\ Len(After.arr) = Len(Before.arr) + 1
       /\ SubSeq(After.arr, 1, Len(Before.arr)) = Before.arr
       /\ LastEntry(After) = format(last.now)

C5_Witness ==
    /\ TakesAppendBranch
    /\ Len(Before.arr) = MaxLen
    /\ Len(After.arr) = MaxLen + 1
    /\ SubSeq(After.arr, 1, MaxLen) = Before.arr
    /\ Before.arr[1] # Before.arr[MaxLen]

\* C6: a note under an ignored folder is left alone: the value is unchanged
\* and nothing is written, whatever the log, the mode, the interval and the
\* time elapsed.
C6_IgnoredGate ==
    (Called /\ LiesUnderSome(last.file, last.cfg.ignoredFolders))
    => (After = Before /\ ~last.mutated)

C6_Witness ==
    /\ Called
    /\ LiesUnderSome(last.file, last.cfg.ignoredFolders)
    /\ Len(last.cfg.ignoredFolders) = 2
    /\ last.cfg.oneModificationPerDay
    /\ HasInvalidLast(Before)
    /\ After = Before /\ ~last.mutated

\* C7: a note is within the ignored folders exactly when the segments of some
\* ignored folder are a proper prefix of the segments of its path: 'Arch'
\* does not cover 'Archive/...', 'A' covers 'A/B/...', and nothing covers a
\* note at the root of the vault.  In one-modification-per-day mode the note
\* is written exactly when it is not covered.
C7_WholeSegments ==
    Called =>
      /\ fileWithinIgnoredFolders(last.file, last.cfg.ignoredFolders)
           <=> LiesUnderSome(last.file, last.cfg.ignoredFolders)
      /\ last.cfg.oneModificationPerDay
           => (last.mutated <=> ~LiesUnderSome(last.file, last.cfg.ignoredFolders))
      /\ Len(Segments(last.file)) = 1 => ~fileWithinIgnoredFolders(last.file, last.cfg.ignoredFolders)

C7_Witness ==
    /\ Called
    /\ last.file = JoinPath(<<FolderArchive, NoteName>>)
    /\ last.cfg.ignoredFolders = <<FolderArch>>
    /\ last.cfg.oneModificationPerDay
    /\ last.mutated

C7_WitnessNested ==
    /\ Called
    /\ last.file = JoinPath(<<FolderA, FolderB, NoteName>>)
    /\ last.cfg.ignoredFolders = <<FolderA>>
    /\ last.cfg.oneModificationPerDay
    /\ ~last.mutated

\* C8: when the last entry of a non-empty log does not parse, the update of a
\* note that is not ignored appends the formatted current moment in both
\* modes and for every interval, and the last entry then parses.
C8_SelfHealing ==
    (Called /\ NotIgnored /\ HasInvalidLast(Before))
    => /\ After = Appended
       /\ last.mutated
       /\ HasValidLast(After)

C8_Witness ==
    /\ Called /\ NotIgnored
    /\ ~last.cfg.oneModificationPerDay
    /\ HasInvalidLast(Before)
    /\ LastEntry(Before) = EntryBlank
    /\ last.now = MomentOf(2024, 1, 1, 10, 0, 30, 0)
    /\ Len(After.arr) = Len(Before.arr) + 1
    /\ After.arr[Len(Before.arr)] = EntryBlank
    /\ HasValidLast(After)

\* C9 as stated: a value that is not an array is discarded before the
\* decision, so the result is always the one-entry log of the formatted
\* current moment, written.
C9_ScalarDiscarded ==
    (Called /\ NotIgnored /\ ~isArray(Before))
    => (After = ArrayValue(<<format(last.now)>>) /\ last.mutated)

\* C9 amended: a value that is not an array is replaced by the one-entry log
\* of the formatted current moment, except in interval mode when it is a
\* string that parses and no more than updateInterval seconds have elapsed
\* since it: then the value is left as it is and nothing is written.
ScalarThrottles ==
    /\ ~last.cfg.oneModificationPerDay
    /\ isString(Before)
    /\ parseStrict(Before.str).valid
    /\ diff(last.now, parseStrict(Before.str)) <= last.cfg.updateInterval

C9_ScalarAmended ==
    (Called /\ NotIgnored /\ ~isArray(Before))
    => IF ScalarThrottles
       THEN After = Before /\ ~last.mutated
       ELSE After = ArrayValue(<<format(last.now)>>) /\ last.mutated

C9_Witness ==
    /\ Called /\ NotIgnored
    /\ Before = StringValue(Entry1000)
    /\ ~last.cfg.oneModificationPerDay
    /\ last.now = MomentOf(2024, 1, 1, 10, 2, 0, 0)
    /\ last.cfg.updateInterval = MIN_UPDATE_INTERVAL
    /\ After = ArrayValue(<<Stamp(2024, 1, 1, 10, 2, 0, T, Colon)>>)

C9_WitnessThrottled ==
    /\ Called /\ NotIgnored
    /\ Before = StringValue(Entry1000)
    /\ ScalarThrottles
    /\ After = Before

\* The shapes a 'last-modified' value has
IsValue(value) ==
    \/ value = Absent
    \/ value = OtherValue
    \/ isString(value) /\ value.arr = <<>>
    \/ isArray(value) /\ value.str = <<>>

\* C16: every update, whatever the shape of the existing value and whatever
\* the settings, ends with 'last-modified' holding a sequence (an absent
\* property being the empty log).
C16_AlwaysSequence ==
    Called => (isArray(After) \/ After = Absent)

\* C16 amended: every update ends with a definite result.  When it writes,
\* 'last-modified' is a non-empty sequence whose last element is the formatted
\* current moment; when it does not write, the value is exactly the value
\* that was there, sequence or not.
C16_TotalAmended ==
    Called
    => /\ IsValue(After)
       /\ last.mutated \in BOOLEAN
       /\ IF last.mutated
          THEN /\ isArray(After)
               /\ After.arr # <<>>
               /\ LastEntry(After) = format(last.now)
          ELSE After = Before

\* A string that parses, met in per-day mode on its own day: the new entry
\* is assigned to index 0 of a new empty array.
C16_Witness ==
    /\ Called /\ NotIgnored
    /\ last.cfg.oneModificationPerDay
    /\ Before = StringValue(Entry1000)
    /\ SameCalendarDay(last.now, parseStrict(Before.str))
    /\ last.mutated
    /\ After = ArrayValue(<<format(last.now)>>)

\* An array whose last element is not a string gets the new entry after it.
C16_WitnessNumber ==
    /\ Called /\ NotIgnored
    /\ Before = ArrayValue(<<Entry1000, EntryNumber>>)
    /\ last.mutated
    /\ After = ArrayValue(<<Entry1000, EntryNumber, format(last.now)>>)

\* A string that throttles the update is still a string afterwards.
C16_WitnessScalarKept ==
    /\ Called /\ NotIgnored
    /\ ScalarThrottles
    /\ ~last.mutated
    /\ isString(After)

\* No entry yet: the property is absent or is the empty array.
NoEntryYet(value) == value = Absent \/ value = ArrayValue(<<>>)

\* C17: first stamp.  An update of a note that is not ignored and has no
\* entry yet leaves exactly the one-entry log of the formatted current moment
\* and writes it, in per-day mode and in interval mode with any interval.
C17_FirstStamp ==
    (Called /\ NotIgnored /\ NoEntryYet(Before))
    => (After = ArrayValue(<<format(last.now)>>) /\ last.mutated)

\* The empty array, stamped in interval mode with the largest interval.
C17_Witness ==
    /\ Called /\ NotIgnored
    /\ Before = ArrayValue(<<>>)
    /\ ~last.cfg.oneModificationPerDay
    /\ last.cfg.updateInterval = MAX_UPDATE_INTERVAL
    /\ After = ArrayValue(<<format(last.now)>>)
    /\ last.mutated

\* The absent property, stamped in per-day mode.
C17_WitnessAbsent ==
    /\ Called /\ NotIgnored
    /\ Before = Absent
    /\ last.cfg.oneModificationPerDay
    /\ After = ArrayValue(<<format(last.now)>>)
    /\ last.mutated

\* Per-day mode meets an array whose last entry parses, is of the day of the
\* current moment, and is the very text the current moment formats to.
IdenticalRestamp ==
    /\ Called /\ NotIgnored
    /\ last.cfg.oneModificationPerDay
    /\ HasValidLast(Before)
    /\ SameCalendarDay(last.now, PreviousInstant)
    /\ format(last.now) = LastEntry(Before)

\* C18: on an identical re-stamp the update reports that nothing was written.
C18_RestampSuppressed ==
    IdenticalRestamp => ~last.mutated

\* C18 amended: on an identical re-stamp the update still writes: the last
\* entry is assigned the same text, 'last-modified' is assigned the array,
\* and the log reads as it did before.
C18_RestampWritten ==
    IdenticalRestamp => (last.mutated /\ After = Before)

\* A second event within the second of the last of two entries.
C18_Witness ==
    /\ IdenticalRestamp
    /\ Len(Before.arr) = 2
    /\ last.now.ms = 0
    /\ last.mutated
    /\ After = Before

\* A moment without its milliseconds
SecondOf(m) == [m EXCEPT !.ms = 0]

\* C19: codec round trip.  The entry written for a moment parses strictly,
\* and parses to that moment's second: the pattern that writes and the
\* pattern that reads denote the same fields.
C19_RoundTrip ==
    (Called /\ last.mutated)
    => /\ LastEntry(After) = format(SecondOf(last.now))
       /\ parseStrict(LastEntry(After)) = SecondOf(last.now)

\* The last second of a leap day has been written and reads back.
C19_Witness ==
    /\ Called /\ last.mutated
    /\ last.now = MomentOf(2024, 2, 29, 23, 59, 59, 999)
    /\ After = ArrayValue(<<Stamp(2024, 2, 29, 23, 59, 59, T, Colon)>>)
    /\ parseStrict(LastEntry(After)) = MomentOf(2024, 2, 29, 23, 59, 59, 0)

\* The first second of a year before the origin of the model's clock has
\* been written and reads back.
C19_WitnessEarly ==
    /\ Called /\ last.mutated
    /\ last.now = MomentOf(1970, 1, 1, 0, 0, 0, 0)
    /\ After = ArrayValue(<<Stamp(1970, 1, 1, 0, 0, 0, T, Colon)>>)
    /\ parseStrict(LastEntry(After)) = last.now

\* The update run once more on what it left, at the same moment with the
\* same settings
Again == updateFrontmatter(last.file, After, last.now, last.cfg)

\* C23: an update repeated at the same instant changes nothing more.  For
\* every value, settings and moment, the update run a second time at the
\* moment of the first leaves the log the first one left, in both modes.
C23_SameInstantIdempotent ==
    Called => Again.value = After

\* Interval mode has pushed an entry; run again at that moment, the update
\* finds 0 seconds elapsed and writes nothing.
C23_Witness ==
    /\ Called /\ NotIgnored
    /\ ~last.cfg.oneModificationPerDay
    /\ HasValidLast(Before)
    /\ last.mutated
    /\ Len(After.arr) = Len(Before.arr) + 1
    /\ ~Again.mutated
    /\ Again.value = After

\* Per-day mode has pushed an entry for a new day; run again at that moment,
\* the update assigns the same text to the last index.
C23_WitnessPerDay ==
    /\ Called /\ NotIgnored
    /\ last.cfg.oneModificationPerDay
    /\ HasValidLast(Before)
    /\ Len(After.arr) = Len(Before.arr) + 1
    /\ Again.mutated
    /\ Again.value = After

\* ------------------------------------------------------------------------
\* Properties of the running plugin (Spec)
\* ------------------------------------------------------------------------
\* The number of entries of a 'last-modified' value; a value that is not an
\* array holds no entries.
LogLength(value) == IF isArray(value) THEN Len(value.arr) ELSE 0

\* C10: the length of a note's log never decreases: in every step of the
\* plugin, whatever the mode, the interval, the ignored folders and the
\* clock, every note's log is at least as long after the step as before it.
C10_LengthNeverDecreases ==
    [][\A file \in DOMAIN frontmatter :
           LogLength(frontmatter'[file]) >= LogLength(frontmatter[file])]_vars

C10_Witness ==
    /\ Called
    /\ last.mutated
    /\ last.cfg.updateInterval # DEFAULT_SETTINGS.updateInterval
    /\ last.cfg.ignoredFolders # <<>>
    /\ LogLength(Before) >= 2
    /\ LogLength(After) = LogLength(Before)
    /\ After # Before

\* ------------------------------------------------------------------------
\* Properties of per-day logging (SpecPerDay)
\* ------------------------------------------------------------------------
\* The calendar day an entry is written for: its date part
EntryDay(entry) == SubSeq(entry, 1, 10)

\* C11: with per-day logging on for every update, logs that start absent or
\* empty and a clock that does not run backward, no two entries of a log
\* fall on the same calendar day.
C11_OneEntryPerDay ==
    \A file \in DOMAIN frontmatter :
        \A i, j \in 1..Len(frontmatter[file].arr) :
            i # j => EntryDay(frontmatter[file].arr[i])
                     # EntryDay(frontmatter[file].arr[j])

C11_Witness ==
    /\ Called
    /\ last.cfg.oneModificationPerDay
    /\ last.mutated
    /\ Len(Before.arr) = 2
    /\ Len(After.arr) = 2
    /\ After # Before
    /\ EntryDay(After.arr[1]) # EntryDay(After.arr[2])

\* ------------------------------------------------------------------------
\* Properties of the settings (SpecSettings)
\* ------------------------------------------------------------------------
\* C12: in every state of the settings (the default, after loading data.json,
\* after any text typed into the interval field) updateInterval lies within
\* [MIN_UPDATE_INTERVAL, MAX_UPDATE_INTERVAL].
C12_IntervalInBounds ==
    /\ settings.updateInterval >= MIN_UPDATE_INTERVAL
    /\ settings.updateInterval <= MAX_UPDATE_INTERVAL

\* What the interval field is expected to assign for a number
ExpectedInterval(n) ==
    IF n < 60 THEN 60 ELSE IF n > 84600 THEN 84600 ELSE n

C13_WitnessIgnored ==
    /\ warning_msg = NotValid
    /\ settings = DEFAULT_SETTINGS
    /\ data = NoData

\* The updates of a note, one after the other in the order their callbacks
\* ran, from the value the note started with
RECURSIVE Replay(_, _, _)
Replay(file, value, calls) ==
    IF calls = <<>> THEN value
    ELSE LET call == Head(calls)
         IN  Replay(file,
                    IF call.file = file
                    THEN updateFrontmatter(file, value, call.now, call.cfg).value
                    ELSE value,
                    Tail(calls))

\* C14: no lost update on one note.  Whatever events were in flight together,
\* the 'last-modified' of every note is what running its updates one after
\* the other, in the order their callbacks ran, gives from the value the note
\* started with: no update works on a copy older than the other's write.
C14_NoLostUpdate ==
    \A file \in DOMAIN history.start :
        frontmatter[file] = Replay(file, history.start[file], history.calls)

\* Two events of one note were in flight together (both fired before either
\* callback ran) and each has added its entry.
C14_Witness ==
    /\ Len(history.calls) = 2
    /\ history.calls[1].file = history.calls[2].file
    /\ history.calls[1].seen = Absent
    /\ history.calls[2].seen = Absent
    /\ isArray(frontmatter[history.calls[1].file])
    /\ Len(frontmatter[history.calls[1].file].arr) = 2

\* C15: frame of an update.  A step that is an update of a note leaves the
\* other properties of every note as they were, and leaves 'last-modified' of
\* every other note as it was, whichever branch the update takes.
C15_Frame ==
    [][last'.op = "update" =>
          /\ otherProperties' = otherProperties
          /\ \A f \in DOMAIN frontmatter :
                 f # last'.file => frontmatter'[f] = frontmatter[f]]_vars

\* An update has written to one note while another note carries a log of its
\* own, and every note still has its title.
C15_Witness ==
    /\ Called
    /\ last.mutated
    /\ After # Before
    /\ \E f \in DOMAIN frontmatter :
           /\ f # last.file
           /\ isArray(frontmatter[f])
           /\ frontmatter[f].arr # <<>>
    /\ \A f \in DOMAIN frontmatter : otherProperties[f] = StringValue(f)

\* The gate branch: an update of a note under an ignored folder, with the
\* note outside it already stamped.
C15_WitnessGate ==
    /\ Called
    /\ ~NotIgnored
    /\ \E f \in DOMAIN frontmatter :
           /\ f # last.file
           /\ isArray(frontmatter[f])
           /\ Len(frontmatter[f].arr) = MaxLog
    /\ \A f \in DOMAIN frontmatter : otherProperties[f] = StringValue(f)

\* The text is a time stamp: it has the exact pattern and parses strictly.
WellFormed(entry) == MatchesPattern(entry) /\ parseStrict(entry).valid

\* C20: every entry written is a well-formed time stamp.  From notes whose
\* property is absent or holds only entries that parse, whatever the modes,
\* intervals, ignored folders and clock values of the updates, every note's
\* property is absent or an array whose entries all have the exact pattern
\* and parse strictly.
C20_WellFormedEntries ==
    \A f \in DOMAIN frontmatter :
        \/ frontmatter[f] = Absent
        \/ /\ isArray(frontmatter[f])
           /\ \A i \in 1..Len(frontmatter[f].arr) :
                  WellFormed(frontmatter[f].arr[i])

\* An update in interval mode has brought a log that started with one entry
\* to the longest log of the model.
C20_Witness ==
    /\ Called /\ last.mutated
    /\ ~last.cfg.oneModificationPerDay
    /\ Len(After.arr) = MaxLog
    /\ After.arr[1] \in {Entry1000, Entry24}
    /\ LastEntry(After) = format(last.now)
    /\ WellFormed(LastEntry(After))

\* ------------------------------------------------------------------------
\* Properties of the settings tab
\* ------------------------------------------------------------------------
\* C21: the ignored-folder list holds no duplicates.  From the empty default,
\* whatever folders are chosen (a folder already in the list included) and
\* whatever rows are deleted, no folder path is at two places of
\* ignoredFolders.
C21_NoDuplicateFolders ==
    \A i, j \in 1..Len(settings.ignoredFolders) :
        settings.ignoredFolders[i] = settings.ignoredFolders[j] => i = j

\* Every folder of the vault is in the list, the first one chosen no longer
\* in first place: any further choice is of a folder the list has.
C21_Witness ==
    /\ Len(settings.ignoredFolders) = Cardinality(SettingsFolders)
    /\ \A folderPath \in SettingsFolders :
           includes(settings.ignoredFolders, folderPath)
    /\ data = Saved(settings)

\* C22: the maximum update interval is the number of seconds in a day: an
\* interval that stands at the maximum is 24 * 60 * 60 seconds, and only a
\* number above 24 * 60 * 60 is taken as too high.
C22_MaxIsADay ==
    /\ settings.updateInterval = MAX_UPDATE_INTERVAL
           => settings.updateInterval = 24 * 60 * 60
    /\ warning_msg.kind = TooHigh(0).kind => warning_msg.n > 24 * 60 * 60

\* The seconds of a day typed into the interval field: taken as too high.
C22_TypedADay ==
    /\ warning_msg = TooHigh(24 * 60 * 60)
    /\ settings.updateInterval = MAX_UPDATE_INTERVAL

\* ------------------------------------------------------------------------
\* Properties of the order of the entries
\* ------------------------------------------------------------------------
\* The entries of an array all parse and none is earlier than one before it.
Chronological(value) ==
    \A i, j \in 1..Len(value.arr) :
        /\ parseStrict(value.arr[i]).valid
        /\ i < j => parseStrict(value.arr[i]).s <= parseStrict(value.arr[j]).s

\* C24: chronological order under a clock that does not run backward.  From
\* a log in chronological order, with every update at a moment not earlier
\* than the last entry, in any mix of per-day and interval mode, the entries
\* stay in chronological order.
C24_ChronologicalOrder ==
    \A f \in DOMAIN frontmatter : Chronological(frontmatter[f])

\* Interval mode has pushed a later entry after an entry that the plugin
\* wrote itself.
C24_Witness ==
    /\ Called /\ last.mutated
    /\ ~last.cfg.oneModificationPerDay
    /\ Len(After.arr) = 2
    /\ After.arr[1] \notin {Entry1000}
    /\ parseStrict(After.arr[1]).s < parseStrict(After.arr[2]).s

\* The value of a note's property is an array whose last entry parses, and
\* the second of the moment is not more than the interval's seconds after
\* the entry's (earlier than it included).  An entry has no milliseconds.
NotYetDue(value, currentMoment, cfg) ==
    /\ HasValidLast(value)
    /\ currentMoment.s - parseStrict(LastEntry(value)).s <= cfg.updateInterval

\* C25: a clock set back suppresses stamping in interval mode.  Every update
\* in interval mode of a note that is not ignored, at a moment earlier than
\* its last entry or not yet more than updateInterval seconds after it,
\* leaves the log as it is; so the log stays as it is, update after update,
\* until the clock has passed the last entry by more than the interval.
C25_BackwardClockSuppressed ==
    [][(/\ last'.op = "update"
        /\ ~last'.cfg.oneModificationPerDay
        /\ NotYetDue(last'.before, last'.now, last'.cfg))
       => (/\ frontmatter'[last'.file] = last'.before
           /\ ~last'.mutated)]_vars

\* An update in interval mode at a moment earlier than the last entry of the
\* note has left the log as it was.
C25_Witness ==
    /\ Called /\ NotIgnored
    /\ ~last.cfg.oneModificationPerDay
    /\ HasValidLast(Before)
    /\ last.now.s < PreviousInstant.s
    /\ After = Before
    /\ ~last.mutated

\* The list without a folder
Without(list, folderPath) == SelectSeq(list, LAMBDA folder : folder # folderPath)

\* C26: a delete click removes exactly the folder of the row clicked.
\* Whatever the list holds, and whether or not the rows have been rendered
\* again since the click before, the list after a click is the list before
\* it without the clicked row's folder.
C26_DeletesClickedFolder ==
    [][last'.op = "delete"
       => settings'.ignoredFolders = Without(settings.ignoredFolders, last'.file)]_vars

\* A click on a row whose folder is still in the list, though another row
\* has been deleted since the rows were rendered, has removed nothing.
C26_StaleRow ==
    /\ last.op = "delete"
    /\ includes(settings.ignoredFolders, last.file)
    /\ Len(settings.ignoredFolders) < Len(rendered)

====
